---------------------------- MODULE Spec2Model ----------------------------
(***************************************************************************)
(* Model of the PS-Analytics pipeline:                                     *)
(*   - src/extract.py    : fetch_page / fetch_all_features (pagination)    *)
(*   - src/processing.py : remove_outliers_iqr and validate_gdf (cascade)  *)
(*                                                                         *)
(* Three specifications share the module:                                  *)
(*   SpecFetch    the pagination loop against a scripted server            *)
(*   SpecIqr      remove_outliers_iqr, one loop iteration per step         *)
(*   SpecValidate validate_gdf, one cascade step per step, with a re-run   *)
(*                of the cascade on its own output                         *)
(***************************************************************************)
EXTENDS Integers, Sequences, FiniteSets, TLC

VARIABLES
    \* ---- fetch_all_features (src/extract.py) ----
    extra_params,   \* caller's overrides (a dict; the empty dict stands for None)
    pages,          \* the scripted server: the k-th response it will give
    pc,             \* "idle" (not called) | "loop" | "returned" | "raised"
    features,       \* the accumulating list
    offset,         \* the loop's cursor
    requests,       \* the query parameters of every GET issued, in order
    result,         \* what the caller got back: NoResult or <<features>>
    errKind,        \* the exception class that left fetch_all_features, or "none"
    \* ---- remove_outliers_iqr (src/processing.py) ----
    gdf,            \* the table passed in: [dtypes, rows]
    columns,        \* the list of column names to check
    k2,             \* twice the factor k (k = k2 / 2)
    treat_na_as_outlier,
    gdf_filtered,   \* the rows of the working copy
    keep_mask,      \* the boolean mask, a function of index labels
    colPos,         \* position of the for loop in columns
    iqrPc,          \* "idle" | "loop" | "done" | "KeyError" | "TypeError"
    iqrLog,         \* per processed column: what it saw and what it left
    \* ---- validate_gdf (src/processing.py) ----
    vgdf,           \* the table the cascade works on: [cols, rows]
    vpc,            \* the step about to run, or "idle" | "done" | "raised"
    vrun,           \* 1: the first run; 2: the run on the first run's output
    verr,           \* the exception that left validate_gdf, or "none"
    vRaisedAt,      \* the step that raised it, or "none"
    dupIn,          \* the rows the duplicate-coordinate step was given
    firstOut        \* the rows the first run returned

fetchVars == <<extra_params, pages, pc, features, offset, requests, result, errKind>>

iqrVars == <<gdf, columns, k2, treat_na_as_outlier, gdf_filtered, keep_mask, colPos,
             iqrPc, iqrLog>>

valVars == <<vgdf, vpc, vrun, verr, vRaisedAt, dupIn, firstOut>>

vars == <<fetchVars, iqrVars, valVars>>

(***************************************************************************)
(* Bounds of the model                                                     *)
(***************************************************************************)
\* number of responses the scripted server holds (requests are capped by it)
MaxPages == 3
\* longest two-column table given to remove_outliers_iqr
MaxRows2 == 3
\* longest table in which only the first checked column varies
MaxRows1 == 5
\* longest table of pooled rows given to validate_gdf
MaxRowsV == 3

(***************************************************************************)
(* Generic helpers                                                         *)
(***************************************************************************)
EmptyDict == [x \in {} |-> 0]

\* dict.update: keys of e win
DictUpdate(d, e) ==
    [key \in (DOMAIN d) \cup (DOMAIN e) |-> IF key \in DOMAIN e THEN e[key] ELSE d[key]]

\* dict.get(key, default)
DictGet(d, key, default) == IF key \in DOMAIN d THEN d[key] ELSE default

(***************************************************************************)
(* src/extract.py                                                          *)
(***************************************************************************)
\* page size used by fetch_all_features
limit == 1000

ARCGIS_URL == "https://sigel.aneel.gov.br/arcgis/rest/services/PORTAL/WFS/MapServer/0/query"

default_params(off, lim) ==
    [where |-> "1=1", outFields |-> "*", returnGeometry |-> "true", outSR |-> "4326",
     f |-> "geojson", resultOffset |-> off, resultRecordCount |-> lim]

\* The features the k-th scripted page carries when it announces n of them:
\* record i of response k is the number 2*limit*k + i, so records of different
\* responses are different and their order is visible.
PageFeatures(k, n) == [i \in 1..n |-> 2 * limit * k + i]

\* Responses of the HTTP collaborator.  net: did the GET complete; status: the
\* HTTP status; json: does the body decode; body: the decoded dict, whose
\* "features" entry is the number of features carried.
Resp(net, status, json, body) == [net |-> net, status |-> status, json |-> json, body |-> body]

OkBody(n, exceeded) == [features |-> n, exceededTransferLimit |-> exceeded]

Http500 == Resp("ok", 500, TRUE, EmptyDict)

Responses ==
    { Resp("timeout", 0, FALSE, EmptyDict),
      Http500,
      Resp("ok", 200, FALSE, EmptyDict),
      Resp("ok", 200, TRUE, [error |-> "400 invalid query"]),
      Resp("ok", 200, TRUE, EmptyDict),
      Resp("ok", 200, TRUE, OkBody(0, FALSE)),
      Resp("ok", 200, TRUE, OkBody(limit - 1, TRUE)),
      Resp("ok", 200, TRUE, OkBody(limit, FALSE)),
      Resp("ok", 200, TRUE, OkBody(limit, TRUE)),
      Resp("ok", 200, TRUE, OkBody(limit + 1, TRUE)) }

ExtraParamsChoices ==
    { EmptyDict, [resultOffset |-> 5], [resultRecordCount |-> 10] }

\* fetch_page, the parameters it sends
FetchParams(off, extra, lim) ==
    LET params == default_params(off, lim)
    IN  IF extra # EmptyDict THEN DictUpdate(params, extra) ELSE params

\* variant: the "error" key of the payload is not looked at
MutRaiseKind(resp) ==
    IF resp.net # "ok" THEN "Timeout"
    ELSE IF resp.status >= 400 /\ resp.status < 600 THEN "HTTPError"
    ELSE IF ~resp.json THEN "JSONDecodeError"
    ELSE "none"

\* session.get raises on a transport failure, raise_for_status on 4xx/5xx,
\* resp.json() on an undecodable body, line 35 on an "error" key
RaiseKind(resp) ==
    IF resp.net # "ok" THEN "Timeout"
    ELSE IF resp.status >= 400 /\ resp.status < 600 THEN "HTTPError"
    ELSE IF ~resp.json THEN "JSONDecodeError"
    ELSE IF "error" \in DOMAIN resp.body THEN "RuntimeError"
    ELSE "none"

\* fetch_page, its outcome: the exception raised, or the decoded dict
fetch_page(resp) ==
    LET kind == RaiseKind(resp)
    IN  [raised |-> kind, data |-> IF kind = "none" THEN resp.body ELSE EmptyDict]

\* variants: the count compared with != instead of <; the count ignored
MutShouldBreak(exceeded, n, lim) == ~exceeded \/ n # lim

MutShouldBreakFlagOnly(exceeded, n, lim) == ~exceeded

\* the loop's exit test (line 66)
ShouldBreak(exceeded, n, lim) == ~exceeded \/ n < lim

\* variant: the page is put in front of the list
MutExtend(feats, page_features) == page_features \o feats

\* features.extend(page_features)
Extend(feats, page_features) == feats \o page_features

\* offset += limit
Advance(off, lim) == off + lim

\* an exception raised by fetch_page is not caught anywhere in
\* fetch_all_features: it leaves the function, nothing is returned
NoResult == <<>>

\* variant: the exception is swallowed and the pages fetched so far returned
MutOnRaise(kind, feats) == [pc |-> "returned", result |-> <<feats>>, errKind |-> "none"]

\* the exception leaves fetch_all_features; the accumulated list is dropped
OnRaise(kind, feats) == [pc |-> "raised", result |-> NoResult, errKind |-> kind]

ValIdle ==
    /\ vgdf = [cols |-> {}, rows |-> <<>>]
    /\ vpc = "idle"
    /\ vrun = 1
    /\ verr = "none"
    /\ vRaisedAt = "none"
    /\ dupIn = <<>>
    /\ firstOut = <<>>

IqrIdle ==
    /\ gdf = [dtypes |-> EmptyDict, rows |-> <<>>]
    /\ columns = <<>>
    /\ k2 = 0
    /\ treat_na_as_outlier = TRUE
    /\ gdf_filtered = <<>>
    /\ keep_mask = EmptyDict
    /\ colPos = 0
    /\ iqrPc = "idle"
    /\ iqrLog = <<>>

FetchIdle ==
    /\ extra_params = EmptyDict
    /\ pages = <<>>
    /\ pc = "idle"
    /\ features = <<>>
    /\ offset = 0
    /\ requests = <<>>
    /\ result = NoResult
    /\ errKind = "none"

FetchInit ==
    /\ IqrIdle
    /\ ValIdle
    /\ extra_params \in ExtraParamsChoices
    /\ pages \in [1..MaxPages -> Responses]
    /\ pc = "loop"
    /\ features = <<>>
    /\ offset = 0
    /\ requests = <<>>
    /\ result = NoResult
    /\ errKind = "none"

\* One pass of the while loop whose fetch_page call raises.
FetchRaises ==
    /\ pc = "loop"
    /\ Len(requests) < MaxPages
    /\ LET k    == Len(requests) + 1
           page == fetch_page(pages[k])
           out  == OnRaise(page.raised, features)
       IN  /\ page.raised # "none"
           /\ requests' = Append(requests, FetchParams(offset, extra_params, limit))
           /\ pc' = out.pc
           /\ result' = out.result
           /\ errKind' = out.errKind
           /\ UNCHANGED <<extra_params, pages, features, offset, iqrVars, valVars>>

\* One pass of the while loop that ends at "offset += limit".
FetchContinue ==
    /\ pc = "loop"
    /\ Len(requests) < MaxPages
    /\ LET k    == Len(requests) + 1
           page == fetch_page(pages[k])
           page_features == PageFeatures(k, DictGet(page.data, "features", 0))
           exceeded == DictGet(page.data, "exceededTransferLimit", FALSE)
       IN  /\ page.raised = "none"
           /\ ~ShouldBreak(exceeded, Len(page_features), limit)
           /\ requests' = Append(requests, FetchParams(offset, extra_params, limit))
           /\ features' = Extend(features, page_features)
           /\ offset' = Advance(offset, limit)
           /\ UNCHANGED <<extra_params, pages, pc, result, errKind, iqrVars, valVars>>

\* One pass of the while loop that ends at "break", followed by the return.
FetchBreak ==
    /\ pc = "loop"
    /\ Len(requests) < MaxPages
    /\ LET k    == Len(requests) + 1
           page == fetch_page(pages[k])
           page_features == PageFeatures(k, DictGet(page.data, "features", 0))
           exceeded == DictGet(page.data, "exceededTransferLimit", FALSE)
       IN  /\ page.raised = "none"
           /\ ShouldBreak(exceeded, Len(page_features), limit)
           /\ requests' = Append(requests, FetchParams(offset, extra_params, limit))
           /\ features' = Extend(features, page_features)
           /\ pc' = "returned"
           /\ result' = <<features'>>
           /\ UNCHANGED <<extra_params, pages, offset, errKind, iqrVars, valVars>>

FetchNext == FetchRaises \/ FetchContinue \/ FetchBreak

SpecFetch == FetchInit /\ [][FetchNext]_vars

(***************************************************************************)
(* src/processing.py : remove_outliers_iqr                                 *)
(*                                                                         *)
(* A cell of a numeric column is NA (null) or <<v>> with v an integer.     *)
(* A row is a record with the pandas index label idx, the ghost field id   *)
(* (its position in the table first given) and one field per column.       *)
(* Quartiles are kept times 4 and bounds times 8, so all arithmetic is     *)
(* exact integer arithmetic (k is a multiple of 1/2).                      *)
(***************************************************************************)
NA == <<>>
IsNA(c) == c = NA
Val(c) == c[1]

\* the numpy dtypes (comparisons with NaN give False) and the pandas nullable
\* ones (comparisons with NA give NA); both have dtype.kind in "iuf"
NumericDtypes == {"float64", "Float64"}
IsNumeric(dtype) == dtype \in NumericDtypes

RECURSIVE Insert(_, _)
Insert(sorted, v) ==
    IF sorted = <<>> THEN <<v>>
    ELSE IF v <= Head(sorted) THEN <<v>> \o sorted
    ELSE <<Head(sorted)>> \o Insert(Tail(sorted), v)

RECURSIVE SortValues(_)
SortValues(xs) == IF xs = <<>> THEN <<>> ELSE Insert(SortValues(Tail(xs)), Head(xs))

RECURSIVE NonNull(_, _)
NonNull(rows, col) ==
    IF rows = <<>> THEN <<>>
    ELSE IF IsNA(Head(rows)[col]) THEN NonNull(Tail(rows), col)
    ELSE <<Val(Head(rows)[col])>> \o NonNull(Tail(rows), col)

\* 4 * Series.quantile(p4 / 4) of the sorted non-null values xs (linear
\* interpolation between the two nearest ranks); xs is not empty
Quantile4(xs, p4) ==
    LET pos == p4 * (Len(xs) - 1)
        j   == pos \div 4
        r   == pos % 4
    IN  IF r = 0 THEN 4 * xs[j + 1]
        ELSE 4 * xs[j + 1] + r * (xs[j + 2] - xs[j + 1])

\* (series >= lower_limit) & (series <= upper_limit), per cell: "T", "F" or "NA".
\* A null cell compares False in a numpy column and NA in a nullable one.
ColInlier(c, dtype, lower8, upper8) ==
    IF IsNA(c) THEN (IF dtype = "float64" THEN "F" ELSE "NA")
    ELSE IF 8 * Val(c) >= lower8 /\ 8 * Val(c) <= upper8 THEN "T" ELSE "F"

\* col_inlier.fillna(False) / col_inlier.fillna(True)
FillNa(inlier, treat) ==
    IF inlier = "NA" THEN ~treat ELSE inlier = "T"

\* lines 115-129: the column's mask over the rows given, by index label
ColStats(rows, col, kk) ==
    LET xs == SortValues(NonNull(rows, col))
    IN  IF xs = <<>> THEN [nan |-> TRUE, q1 |-> 0, q3 |-> 0, lower8 |-> 0, upper8 |-> 0]
        ELSE LET q1 == Quantile4(xs, 1)
                 q3 == Quantile4(xs, 3)
                 iqr == q3 - q1
             IN  [nan |-> FALSE, q1 |-> q1, q3 |-> q3,
                  lower8 |-> 2 * q1 - kk * iqr, upper8 |-> 2 * q3 + kk * iqr]

ColMask(rows, col, dtype, kk, treat) ==
    LET st == ColStats(rows, col, kk)
    IN  [l \in {rows[i].idx : i \in 1..Len(rows)} |->
            LET r == CHOOSE x \in {rows[i] : i \in 1..Len(rows)} : x.idx = l
            IN  FillNa(ColInlier(r[col], dtype, st.lower8, st.upper8), treat)]

\* keep_mask & col_mask.  In the first pass keep_mask is an array as long as
\* col_mask; from the second pass on both are Series, which pandas aligns on
\* the union of their index labels, a label missing on one side counting as
\* False.  keep_mask keeps the labels the table had before reset_index.
AndMasks(keep, mask) ==
    [l \in (DOMAIN keep) \cup (DOMAIN mask) |->
        (l \in DOMAIN keep /\ keep[l]) /\ (l \in DOMAIN mask /\ mask[l])]

\* gdf_filtered[keep_mask]: the rows whose label the mask maps to True
RECURSIVE SelectRows(_, _)
SelectRows(rows, mask) ==
    IF rows = <<>> THEN <<>>
    ELSE IF Head(rows).idx \in DOMAIN mask /\ mask[Head(rows).idx]
         THEN <<Head(rows)>> \o SelectRows(Tail(rows), mask)
         ELSE SelectRows(Tail(rows), mask)

\* .reset_index(drop=True): labels 0..n-1
ResetIndex(rows) == [i \in 1..Len(rows) |-> [rows[i] EXCEPT !.idx = i - 1]]

\* keep_mask = gdf_filtered.index == gdf_filtered.index (line 103)
InitialMask(rows) == [l \in {rows[i].idx : i \in 1..Len(rows)} |-> TRUE]

\* One pass of "for col in columns" (lines 105-138): the exception it raises,
\* or the new rows and mask, with a record of what the column saw
IqrIteration(rows, keep, dtypes, col, kk, treat) ==
    IF col \notin DOMAIN dtypes
    THEN [err |-> "KeyError", rows |-> rows, keep |-> keep, entry |-> <<>>]
    ELSE IF ~IsNumeric(dtypes[col])
    THEN [err |-> "TypeError", rows |-> rows, keep |-> keep, entry |-> <<>>]
    ELSE LET col_mask == ColMask(rows, col, dtypes[col], kk, treat)
             newKeep  == AndMasks(keep, col_mask)
             newRows  == ResetIndex(SelectRows(rows, newKeep))
             st       == ColStats(rows, col, kk)
         IN  [err |-> "none", rows |-> newRows, keep |-> newKeep,
              entry |-> <<[col |-> col, before |-> rows, after |-> newRows,
                           nan |-> st.nan, iqr |-> st.q3 - st.q1, mask |-> col_mask]>>]

\* the whole call, as validate_gdf makes it: [err, rows]
RECURSIVE IqrLoop(_, _, _, _, _, _)
IqrLoop(rows, keep, dtypes, cols, kk, treat) ==
    IF cols = <<>> THEN [err |-> "none", rows |-> rows]
    ELSE LET it == IqrIteration(rows, keep, dtypes, Head(cols), kk, treat)
         IN  IF it.err # "none" THEN [err |-> it.err, rows |-> rows]
             ELSE IqrLoop(it.rows, it.keep, dtypes, Tail(cols), kk, treat)

remove_outliers_iqr(table, cols, kk, treat) ==
    IqrLoop(table.rows, InitialMask(table.rows), table.dtypes, cols, kk, treat)

\* ---- the inputs of SpecIqr ----
Cells == {NA, <<7>>, <<100>>}
CellsB == {<<7>>, <<100>>}

Row(i, a, b) == [idx |-> i - 1, id |-> i, a |-> a, b |-> b]

TwoColumnRows ==
    UNION { { [i \in 1..n |-> Row(i, ca[i], cb[i])] : ca \in [1..n -> Cells], cb \in [1..n -> CellsB] }
            : n \in 0..MaxRows2 }

OneColumnRows ==
    UNION { { [i \in 1..n |-> Row(i, ca[i], <<7>>)] : ca \in [1..n -> Cells] }
            : n \in 0..MaxRows1 }

\* the column of the IQR example: values 1, 2, 3, 4, 5, 100
ExampleValues == <<1, 2, 3, 4, 5, 100>>
ExampleRows == [i \in 1..Len(ExampleValues) |-> Row(i, <<ExampleValues[i]>>, <<7>>)]

IqrRows == TwoColumnRows \cup OneColumnRows \cup {ExampleRows}

\* k = 0, 1.5 (the default) and 3 (validate_gdf's)
K2Choices == {0, 3, 6}

\* column "s" holds text, column "c" does not exist
ColumnLists == { <<"a">>, <<"a", "b">>, <<"b", "a">>, <<"a", "s">>, <<"a", "c">> }

IqrInit ==
    /\ FetchIdle
    /\ ValIdle
    /\ \E rows \in IqrRows, dt \in NumericDtypes :
          /\ gdf = [dtypes |-> [a |-> dt, b |-> dt, s |-> "object"], rows |-> rows]
          /\ gdf_filtered = rows
          /\ keep_mask = InitialMask(rows)
    /\ columns \in ColumnLists
    /\ k2 \in K2Choices
    /\ treat_na_as_outlier \in BOOLEAN
    /\ colPos = 1
    /\ iqrPc = "loop"
    /\ iqrLog = <<>>

\* one pass of the for loop that completes
IqrColumn ==
    /\ iqrPc = "loop"
    /\ colPos <= Len(columns)
    /\ LET it == IqrIteration(gdf_filtered, keep_mask, gdf.dtypes, columns[colPos], k2,
                              treat_na_as_outlier)
       IN  /\ it.err = "none"
           /\ gdf_filtered' = it.rows
           /\ keep_mask' = it.keep
           /\ iqrLog' = iqrLog \o it.entry
           /\ colPos' = colPos + 1
           /\ UNCHANGED <<gdf, columns, k2, treat_na_as_outlier, iqrPc, fetchVars, valVars>>

\* one pass of the for loop that raises
IqrRaises ==
    /\ iqrPc = "loop"
    /\ colPos <= Len(columns)
    /\ LET it == IqrIteration(gdf_filtered, keep_mask, gdf.dtypes, columns[colPos], k2,
                              treat_na_as_outlier)
       IN  /\ it.err # "none"
           /\ iqrPc' = it.err
           /\ UNCHANGED <<gdf, columns, k2, treat_na_as_outlier, gdf_filtered, keep_mask,
                          colPos, iqrLog, fetchVars, valVars>>

\* return gdf_filtered
IqrReturn ==
    /\ iqrPc = "loop"
    /\ colPos > Len(columns)
    /\ iqrPc' = "done"
    /\ UNCHANGED <<gdf, columns, k2, treat_na_as_outlier, gdf_filtered, keep_mask,
                   colPos, iqrLog, fetchVars, valVars>>

IqrNext == IqrColumn \/ IqrRaises \/ IqrReturn

SpecIqr == IqrInit /\ [][IqrNext]_vars

(***************************************************************************)
(* src/processing.py : validate_gdf                                        *)
(*                                                                         *)
(* A table is [cols, rows]; a row has a field per column that the cascade  *)
(* reads (the columns origem, x, y, datum_emp, fuso_ag are only ever       *)
(* dropped, so they are column names without cell values).  Text and       *)
(* number cells are NA or <<value>>; geometry is "none", "invalid" or      *)
(* "valid"; operacao is "null", "int:1", "str:1", "Sim" or "Nao".          *)
(***************************************************************************)
VALID_VERSION == "Versão Válida"

drop_na_columns ==
    <<"pot_mw", "alt_total", "alt_torre", "diam_rotor", "eol_versao_id", "nome_eol", "den_aeg">>

check_outliers == <<"pot_mw">>

drop_columns == <<"geometry", "origem", "x", "y", "datum_emp", "fuso_ag", "versao">>

AllColumns ==
    {"geometry", "origem", "x", "y", "datum_emp", "fuso_ag", "versao", "operacao",
     "pot_mw", "alt_total", "alt_torre", "diam_rotor", "eol_versao_id", "nome_eol",
     "den_aeg", "latitude", "longitude"}

NumericColumns == {"pot_mw", "alt_total", "alt_torre", "diam_rotor", "latitude", "longitude"}

Range(seq) == {seq[i] : i \in 1..Len(seq)}

\* boolean indexing gdf[cond] and dropna are SelectSeq: the rows passing the
\* test, in order, with their labels

Raise(kind, t) == [err |-> kind, table |-> t]
Ok(t) == [err |-> "none", table |-> t]

\* variant: a table without geometry column passes the step unchanged
MutGeometryStep(t) ==
    IF "geometry" \notin t.cols THEN Ok(t)
    ELSE LET NotNa(r) == r.geometry # "none"
             IsValid(r) == r.geometry = "valid"
         IN  Ok([t EXCEPT !.rows = SelectSeq(SelectSeq(t.rows, NotNa), IsValid)])

\* 1) gdf[gdf.geometry.notna()], then gdf[gdf.geometry.is_valid]; gdf.geometry
\*    raises AttributeError when the table has no geometry column
GeometryStep(t) ==
    IF "geometry" \notin t.cols THEN Raise("AttributeError", t)
    ELSE LET NotNa(r) == r.geometry # "none"
             IsValid(r) == r.geometry = "valid"
         IN  Ok([t EXCEPT !.rows = SelectSeq(SelectSeq(t.rows, NotNa), IsValid)])

\* 2.1) gdf[gdf["versao"] == "Versão Válida"]
VersaoStep(t) ==
    IF "versao" \notin t.cols THEN Raise("KeyError", t)
    ELSE LET IsValidVersion(r) == r.versao = VALID_VERSION
         IN  Ok([t EXCEPT !.rows = SelectSeq(t.rows, IsValidVersion)])

\* 2.2) replace([1, "1"], "Sim"), then dropna(subset=["operacao"])
ReplaceOne(v) == IF v \in {"int:1", "str:1"} THEN "Sim" ELSE v

OperacaoStep(t) ==
    IF "operacao" \notin t.cols THEN Raise("KeyError", t)
    ELSE LET replaced == [i \in 1..Len(t.rows) |->
                             [t.rows[i] EXCEPT !.operacao = ReplaceOne(@)]]
             NotNull(r) == r.operacao # "null"
         IN  Ok([t EXCEPT !.rows = SelectSeq(replaced, NotNull)])

\* 2.3) dropna(subset=drop_na_columns)
DropNaStep(t) ==
    IF ~(Range(drop_na_columns) \subseteq t.cols) THEN Raise("KeyError", t)
    ELSE LET Complete(r) == \A c \in Range(drop_na_columns) : ~IsNA(r[c])
         IN  Ok([t EXCEPT !.rows = SelectSeq(t.rows, Complete)])

\* 3) remove_outliers_iqr(gdf, check_outliers, k=3), treat_na_as_outlier left
\*    at its default (True)
ColumnDtype(c) == IF c \in NumericColumns THEN "float64" ELSE "object"

OutlierStep(t) ==
    LET out == remove_outliers_iqr([dtypes |-> [c \in t.cols |-> ColumnDtype(c)],
                                    rows |-> t.rows], check_outliers, 6, TRUE)
    IN  IF out.err # "none" THEN Raise(out.err, t)
        ELSE Ok([t EXCEPT !.rows = out.rows])

\* variant: the last row of each pair is kept (keep="last")
RECURSIVE DedupLast(_)
DedupLast(rows) ==
    IF rows = <<>> THEN <<>>
    ELSE LET r == Head(rows)
             later == {<<Tail(rows)[i].latitude, Tail(rows)[i].longitude>> : i \in 1..Len(Tail(rows))}
         IN  (IF <<r.latitude, r.longitude>> \in later THEN <<>> ELSE <<r>>)
                 \o DedupLast(Tail(rows))

MutDropDuplicates(rows) == DedupLast(rows)

\* 4) drop_duplicates(subset=["latitude", "longitude"]): a row goes when an
\*    earlier row has the same pair (keep="first")
RECURSIVE DedupFirst(_, _)
DedupFirst(rows, seen) ==
    IF rows = <<>> THEN <<>>
    ELSE LET r == Head(rows)
             key == <<r.latitude, r.longitude>>
         IN  IF key \in seen THEN DedupFirst(Tail(rows), seen)
             ELSE <<r>> \o DedupFirst(Tail(rows), seen \cup {key})

DropDuplicates(rows) == DedupFirst(rows, {})

DuplicatesStep(t) ==
    IF ~({"latitude", "longitude"} \subseteq t.cols) THEN Raise("KeyError", t)
    ELSE Ok([t EXCEPT !.rows = ResetIndex(DropDuplicates(t.rows))])

\* 5) gdf.drop(columns=drop_columns, inplace=True): KeyError when one of the
\*    columns is not there
DropFields(r, cs) == [fld \in (DOMAIN r) \ cs |-> r[fld]]

PruneStep(t) ==
    IF ~(Range(drop_columns) \subseteq t.cols) THEN Raise("KeyError", t)
    ELSE Ok([cols |-> t.cols \ Range(drop_columns),
             rows |-> [i \in 1..Len(t.rows) |-> DropFields(t.rows[i], Range(drop_columns))]])

\* ---- the inputs of SpecValidate ----
VRow(geometry, versao, operacao, pot, alt_total, lat, lon) ==
    [geometry |-> geometry, versao |-> versao, operacao |-> operacao, pot_mw |-> pot,
     alt_total |-> alt_total, alt_torre |-> <<80>>, diam_rotor |-> <<90>>,
     eol_versao_id |-> <<"v1">>, nome_eol |-> <<"EOL">>, den_aeg |-> <<"AEG">>,
     latitude |-> lat, longitude |-> lon]

Good(pot, lat, lon) == VRow("valid", VALID_VERSION, "Sim", <<pot>>, <<120>>, lat, lon)

RowPool ==
    { Good(7, 1, 1), Good(100, 1, 1), Good(7, 1, 2), Good(7, 2, 1),
      VRow("none", VALID_VERSION, "Sim", <<7>>, <<120>>, 1, 1),
      VRow("invalid", VALID_VERSION, "Sim", <<7>>, <<120>>, 1, 2),
      VRow("valid", "Versão Inválida", "Sim", <<7>>, <<120>>, 1, 1),
      VRow("valid", VALID_VERSION, "null", <<7>>, <<120>>, 1, 2),
      VRow("valid", VALID_VERSION, "int:1", <<7>>, <<120>>, 2, 2),
      VRow("valid", VALID_VERSION, "str:1", NA, <<120>>, 1, 1),
      VRow("valid", VALID_VERSION, "Nao", <<7>>, NA, 2, 1) }

\* pandas labels and row identities by position
Labelled(rs) == [i \in 1..Len(rs) |-> [fld \in (DOMAIN rs[i]) \cup {"idx", "id"} |->
                    IF fld = "idx" THEN i - 1 ELSE IF fld = "id" THEN i ELSE rs[i][fld]]]

\* a table whose power column holds one far value among equal ones, with and
\* without repeated coordinates
OutlierTables ==
    { <<Good(7, 1, 1), Good(7, 1, 2), Good(100, 2, 2), Good(7, 2, 1), Good(7, 3, 1)>>,
      <<Good(7, 1, 1), Good(100, 1, 2), Good(7, 1, 1), Good(7, 1, 2), Good(7, 2, 2)>> }

ValidateInputs ==
    UNION { [1..n -> RowPool] : n \in 0..MaxRowsV } \cup OutlierTables

ValidateInit ==
    /\ FetchIdle
    /\ IqrIdle
    /\ \E rs \in ValidateInputs : vgdf = [cols |-> AllColumns, rows |-> Labelled(rs)]
    /\ vpc = "geometry"
    /\ vrun = 1
    /\ verr = "none"
    /\ vRaisedAt = "none"
    /\ dupIn = <<>>
    /\ firstOut = <<>>

\* what a step's outcome does to the run
After(step, next, out) ==
    /\ vpc = step
    /\ vgdf' = out.table
    /\ vpc' = IF out.err = "none" THEN next ELSE "raised"
    /\ verr' = out.err
    /\ vRaisedAt' = IF out.err = "none" THEN "none" ELSE step
    /\ UNCHANGED <<vrun, firstOut, fetchVars, iqrVars>>

ValGeometry == After("geometry", "versao", GeometryStep(vgdf)) /\ UNCHANGED dupIn

ValVersao == After("versao", "operacao", VersaoStep(vgdf)) /\ UNCHANGED dupIn

ValOperacao == After("operacao", "dropna", OperacaoStep(vgdf)) /\ UNCHANGED dupIn

ValDropNa == After("dropna", "outliers", DropNaStep(vgdf)) /\ UNCHANGED dupIn

ValOutliers == After("outliers", "duplicates", OutlierStep(vgdf)) /\ UNCHANGED dupIn

ValDuplicates == After("duplicates", "prune", DuplicatesStep(vgdf)) /\ dupIn' = vgdf.rows

\* the pruning step and the return
ValPrune == After("prune", "done", PruneStep(vgdf)) /\ UNCHANGED dupIn

\* validate_gdf is called again, on the table it has just returned
ValRerun ==
    /\ vpc = "done"
    /\ vrun = 1
    /\ vrun' = 2
    /\ vpc' = "geometry"
    /\ firstOut' = vgdf.rows
    /\ UNCHANGED <<vgdf, verr, vRaisedAt, dupIn, fetchVars, iqrVars>>

ValidateNext ==
    \/ ValGeometry \/ ValVersao \/ ValOperacao \/ ValDropNa \/ ValOutliers
    \/ ValDuplicates \/ ValPrune \/ ValRerun

SpecValidate == ValidateInit /\ [][ValidateNext]_vars

(***************************************************************************)
(* Claims about fetch_page / fetch_all_features (checked under SpecFetch)  *)
(***************************************************************************)
\* what the k-th scripted response turns into
PageOk(k) == RaiseKind(pages[k]) = "none"
PageCount(k) == DictGet(pages[k].body, "features", 0)
PageFlag(k) == DictGet(pages[k].body, "exceededTransferLimit", FALSE)

RECURSIVE ConcatPages(_)
ConcatPages(k) == IF k = 0 THEN <<>> ELSE ConcatPages(k - 1) \o PageFeatures(k, PageCount(k))

\* N is the first page of the script with fewer than limit records, and no
\* page up to it fails
FirstShort(N) ==
    /\ \A j \in 1..N : PageOk(j)
    /\ PageCount(N) < limit
    /\ \A j \in 1..(N - 1) : PageCount(j) >= limit

\* C1 (as stated): if the N-th page of the script is the first one with fewer
\* than limit records, exactly N requests are issued and the call returns,
\* whatever the exceededTransferLimit flags of the pages are.
C1_ExactlyNRequests ==
    \A N \in 1..MaxPages :
        FirstShort(N) =>
            /\ Len(requests) <= N
            /\ pc # "loop" => (pc = "returned" /\ Len(requests) = N)

\* C1 (amended): with N the first short page, at most N requests are issued;
\* exactly N, followed by the return, when every earlier page carries the flag
\* (whatever page N's own flag is); otherwise the call returns at the first
\* earlier page whose flag is false or absent.
C1_StopsAtFirstShortOrUnflagged ==
    \A N \in 1..MaxPages :
        FirstShort(N) =>
            LET stop == CHOOSE j \in 1..N : /\ (j = N \/ ~PageFlag(j))
                                           /\ \A i \in 1..(j - 1) : PageFlag(i)
            IN  /\ Len(requests) <= stop
                /\ Len(requests) <= N
                /\ pc = "loop" <=> Len(requests) < stop
                /\ pc # "loop" => pc = "returned"
                /\ (\A i \in 1..(N - 1) : PageFlag(i)) /\ pc = "returned"
                       => Len(requests) = N

\* C1 witness: three requests were needed, the third page is short and still
\* carries the flag
C1_Witness ==
    /\ pc = "returned"
    /\ Len(requests) = 3
    /\ FirstShort(3)
    /\ PageFlag(3)

\* C2: after each fetched page a further page is requested iff the page's
\* flag is true and it holds at least limit features.
C2_ContinueIffFlagAndFull ==
    \A k \in 1..Len(requests) :
        PageOk(k) =>
            ((k < Len(requests) \/ pc = "loop") <=> (PageFlag(k) /\ PageCount(k) >= limit))

\* C2 witness: a second page with the flag set but fewer than limit features
\* was the last one requested
C2_Witness ==
    /\ pc = "returned"
    /\ Len(requests) = 2
    /\ pages[2] = Resp("ok", 200, TRUE, OkBody(limit - 1, TRUE))

\* C3 (as stated): the k-th request carries page start (k-1)*limit and page
\* size limit, and the returned dataset is the concatenation of the fetched
\* pages in receipt order.
C3_OffsetsAndConcatenation ==
    /\ \A k \in 1..Len(requests) :
          /\ requests[k].resultOffset = (k - 1) * limit
          /\ requests[k].resultRecordCount = limit
    /\ pc = "returned" => result = <<ConcatPages(Len(requests))>>

\* C3 (amended): the same, except that a resultOffset or resultRecordCount
\* given in extra_params replaces the loop's value in every request.
C3_OffsetsUnlessOverridden ==
    /\ \A k \in 1..Len(requests) :
          /\ requests[k].resultOffset =
                 DictGet(extra_params, "resultOffset", (k - 1) * limit)
          /\ requests[k].resultRecordCount =
                 DictGet(extra_params, "resultRecordCount", limit)
          /\ DOMAIN requests[k] = DOMAIN default_params(0, limit)
    /\ offset = (IF pc = "loop" THEN Len(requests) ELSE Len(requests) - 1) * limit
    /\ pc = "returned" => result = <<ConcatPages(Len(requests))>>
    /\ pc = "loop" => features = ConcatPages(Len(requests))

\* C3 witness: a run of three pages without overrides has returned
C3_Witness ==
    /\ pc = "returned"
    /\ extra_params = EmptyDict
    /\ Len(requests) = 3
    /\ PageCount(3) > 0

\* the two failure cases of the claim, read off the response itself
EmbeddedError(r) == r.net = "ok" /\ r.status = 200 /\ r.json /\ "error" \in DOMAIN r.body
BadStatus(r) == r.net = "ok" /\ r.status >= 400

C5_FailureAbortsRun ==
    \A k \in 1..Len(requests) :
        ~PageOk(k) =>
            /\ Len(requests) = k
            /\ pc = "raised"
            /\ result = NoResult
            /\ errKind = RaiseKind(pages[k])

\* C5 witness: the second request timed out after a full first page
C5_Witness ==
    /\ pc = "raised"
    /\ errKind = "Timeout"
    /\ Len(requests) = 2
    /\ Len(features) = limit

(***************************************************************************)
(* Claims about remove_outliers_iqr (checked under SpecIqr)                *)
(***************************************************************************)
Ids(rows) == [i \in 1..Len(rows) |-> rows[i].id]

\* the rows a column leaves when it is applied to the rows given: a row goes
\* exactly when this column's own mask flags it
DropFlagged(rows, col, dtype, kk, treat) ==
    SelectRows(rows, ColMask(rows, col, dtype, kk, treat))

RECURSIVE SequentialFilter(_, _, _, _, _)
SequentialFilter(rows, cols, dtypes, kk, treat) ==
    IF cols = <<>> THEN rows
    ELSE SequentialFilter(ResetIndex(DropFlagged(rows, Head(cols), dtypes[Head(cols)], kk, treat)),
                          Tail(cols), dtypes, kk, treat)

\* C6: the columns are processed in list order, each on the rows that survived
\* the earlier ones (quartiles recomputed there); a row is dropped iff some
\* column flags it; and the call completes with that result.
C6_SequentialColumns ==
    (/\ iqrPc # "idle"
     /\ \A i \in 1..Len(columns) : columns[i] \in DOMAIN gdf.dtypes
                                    /\ IsNumeric(gdf.dtypes[columns[i]]))
    => /\ iqrPc \in {"loop", "done"}
       /\ iqrPc = "done" =>
            Ids(gdf_filtered) =
               Ids(SequentialFilter(gdf.rows, columns, gdf.dtypes, k2, treat_na_as_outlier))

\* C7: a column whose IQR is zero flags no row (no row holding a value is
\* masked out by it), whatever k is.
C7_ZeroIqrFlagsNothing ==
    \A n \in 1..Len(iqrLog) :
        LET e == iqrLog[n]
        IN  (~e.nan /\ e.iqr = 0) =>
               \A i \in 1..Len(e.before) :
                   ~IsNA(e.before[i][e.col]) => e.mask[e.before[i].idx]

\* the rows the claim keeps: a value within [Q1 - k*IQR, Q3 + k*IQR] of the
\* column, or a null when treat_na_as_outlier is false
InBounds(c, rows, col, kk) ==
    LET st == ColStats(rows, col, kk)
    IN  8 * Val(c) >= st.lower8 /\ 8 * Val(c) <= st.upper8

RECURSIVE KeptByClaim(_, _, _, _, _)
KeptByClaim(rows, all, col, kk, treat) ==
    IF rows = <<>> THEN <<>>
    ELSE LET r == Head(rows)
             keep == IF IsNA(r[col]) THEN ~treat ELSE InBounds(r[col], all, col, kk)
         IN  (IF keep THEN <<r.id>> ELSE <<>>) \o KeptByClaim(Tail(rows), all, col, kk, treat)

\* C8: with one checked column (holding at least one value, so that it has
\* quartiles) a row is kept iff its value lies within
\* [Q1 - k*IQR, Q3 + k*IQR], or it is null and treat_na_as_outlier is false;
\* of the values 1,2,3,4,5,100 with k = 1.5 exactly 100 is removed.
C8_KeepIffWithinBoundsOrExemptNull ==
    (iqrPc = "done" /\ Len(columns) = 1 /\ NonNull(gdf.rows, columns[1]) # <<>>) =>
        /\ Ids(gdf_filtered) =
              KeptByClaim(gdf.rows, gdf.rows, columns[1], k2, treat_na_as_outlier)
        /\ (gdf.rows = ExampleRows /\ k2 = 3 /\ columns = <<"a">>) =>
              /\ iqrLog[1].iqr = 10
              /\ [i \in 1..Len(gdf_filtered) |-> Val(gdf_filtered[i].a)] = <<1, 2, 3, 4, 5>>

\* the example of C8 alone: Q1 = 2.25, Q3 = 4.75 (IQR 2.5), 100 goes, 1..5 stay
IqrExampleHolds ==
    (iqrPc = "done" /\ gdf.rows = ExampleRows /\ k2 = 3 /\ columns = <<"a">>) =>
        /\ ColStats(gdf.rows, "a", k2).q1 = 9
        /\ ColStats(gdf.rows, "a", k2).q3 = 19
        /\ [i \in 1..Len(gdf_filtered) |-> Val(gdf_filtered[i].a)] = <<1, 2, 3, 4, 5>>

(***************************************************************************)
(* Claims about validate_gdf (checked under SpecValidate)                  *)
(***************************************************************************)
Coord(r) == <<r.latitude, r.longitude>>

\* C9: the duplicate-coordinate step keeps, for every (latitude, longitude)
\* pair of its input, exactly the first row carrying it, in the original
\* relative order, re-indexed 0..n-1; two rows with the same pair plus one
\* distinct row leave 2 rows.
C9_FirstOfEachCoordinateKept ==
    (vrun = 1 /\ vpc \in {"prune", "done"}) =>
        LET out == vgdf.rows
        IN  /\ \A i \in 1..Len(dupIn) :
                  (\E j \in 1..Len(out) : out[j].id = dupIn[i].id)
                     <=> (\A h \in 1..(i - 1) : Coord(dupIn[h]) # Coord(dupIn[i]))
            /\ \A j \in 1..Len(out) : \E i \in 1..Len(dupIn) : out[j].id = dupIn[i].id
            /\ \A i, j \in 1..Len(out) : i < j => out[i].id < out[j].id
            /\ \A j \in 1..Len(out) : out[j].idx = j - 1
            /\ (Len(dupIn) = 3 /\ Cardinality({Coord(dupIn[i]) : i \in 1..3}) = 2)
                  => Len(out) = 2

\* C9 witness: of three rows given to the step, two shared their coordinates
\* and two rows are left
C9_Witness ==
    /\ vrun = 1
    /\ vpc = "prune"
    /\ Len(dupIn) = 3
    /\ Coord(dupIn[1]) = Coord(dupIn[3])
    /\ Coord(dupIn[1]) # Coord(dupIn[2])
    /\ Len(vgdf.rows) = 2

\* C10 (as stated): the second run, on the first run's output, changes no row
\* and either completes or raises only at the pruning step.
C10_SecondRunIsFixedPoint ==
    vrun = 2 =>
        /\ Ids(vgdf.rows) = Ids(firstOut)
        /\ vpc = "raised" => vRaisedAt = "prune"

\* C10 (amended): the second run changes no row because it does not get past
\* its first step: the geometry column is gone, so the geometry step raises
\* (AttributeError) before any filter and before the pruning step.
C10_SecondRunRaisesAtGeometry ==
    vrun = 2 =>
        /\ vgdf.rows = firstOut
        /\ "geometry" \notin vgdf.cols
        /\ vpc \in {"geometry", "raised"}
        /\ vpc = "raised" => (vRaisedAt = "geometry" /\ verr = "AttributeError")

\* C10 witness: the second run, given a table that still has rows, has raised
C10_Witness ==
    /\ vrun = 2
    /\ vpc = "raised"
    /\ Len(firstOut) >= 2

=============================================================================
